---- MODULE Spec2Model ----
(***************************************************************************)
(* Resilience patterns of playwright-helpers: CircuitBreaker,              *)
(* TimeoutManager, ChaosInjector, withResilience (resilience module) and   *)
(* the retry loops retryWithBackoffLegacy / CommonPatterns.retryAction.    *)
(* Time is a discrete clock `now` (Date.now()), one tick = one unit.       *)
(***************************************************************************)
EXTENDS Integers, Sequences, FiniteSets, TLC

VARIABLES
    now,        \* Date.now()
    opts,       \* CircuitBreaker.options: [threshold, timeout, halfOpenTimeout]
    breaker,    \* CircuitBreaker fields: [state, failureCount, lastFailureTime]
    calls,      \* per caller of execute(): "idle" or "running" (awaiting operation())
    opCount,    \* number of times the operation was invoked through execute()
    opens,      \* number of transitions of breaker.state from not-open to open
    last,       \* the last breaker operation: [ev, pre, ret, at]
    probe       \* [on, admitted]: since the breaker last entered half-open and until the
                \* outcome of a call admitted since is recorded, the callers admitted

bvars == <<now, opts, breaker, calls, opCount, opens, last, probe>>

\* One call of withResilience / withTimeout: the wrapped stack
VARIABLES
    cfg,        \* the options of the call: [cb, timeout, onTimeout, retry, maxAttempts, delayMs, chaos]
    attempt,    \* attempts of the wrapped operation started so far (retry's counter)
    rpc,        \* the call: "idle", "running" (awaiting an attempt), "sleeping", "done"
    wake,       \* end of the backoff sleep
    inv,        \* per attempt, the invocation of op: "none", "pending", "resolved", "rejected"
    timer,      \* per attempt, withTimeout's setTimeout: "none", "armed", "fired"
    startAt,    \* per attempt, withTimeout's startTime
    hpc,        \* per attempt, handleTimeout: "none", "awaiting" (onTimeout), "rejected", "threw"
    pendAtFire, \* per attempt: the raced operation was still pending when the timer fired
    ares,       \* per attempt, the promise withTimeout returned (or the inner one without a timeout)
    result      \* what the caller of the whole call got: "pending" or an outcome

svars == <<cfg, attempt, rpc, wake, inv, timer, startAt, hpc, pendAtFire, ares, result>>

\* One call of retryWithBackoffLegacy or CommonPatterns.retryAction
VARIABLES
    rcfg,       \* the call: [fn, maxAttempts, delay, maxDelayMs, backoffMultiplier, onRetry]
    rpos,       \* position in the loop: "idle", "await-op", "sleep", "done"
    rattempt,   \* the loop variable `attempt`
    rdelay,     \* retryWithBackoffLegacy's variable `delay`
    rsleeps,    \* the durations slept so far, in order
    rcalls,     \* invocations of the operation
    ronRetry,   \* invocations of onRetry
    rthrown,    \* what the last failed invocation threw
    rresult     \* [st, err]: "pending", "value", or "error" with the error rejected with

rvars == <<rcfg, rpos, rattempt, rdelay, rsleeps, rcalls, ronRetry, rthrown, rresult>>

\* A ChaosInjector and the page it installs its routes on
VARIABLES
    rules,      \* handlers routed on the page for '**/*', most recently added first
    sims,       \* per simulate call that restores by itself: [kind, wake], kind "idle" when none
    clast,      \* the last injector operation or request: [ev, outcome]
    earlyRestore, \* restore() ran while a network-failure simulation was pending, no install since
    active      \* the simulate call whose policy was installed last, nothing installed or restored since (0: none)

cvars == <<rules, sims, clast, earlyRestore, active>>

\* One call of withProgressiveTimeout (its attempts use the variables of the
\* wrapped stack above)
VARIABLES
    timeouts,   \* the argument `timeouts`, Null where an element is missing
    deadline,   \* per attempt, the timeoutMs its withTimeout was called with
    slept,      \* the durations slept between attempts so far, in order
    lastError,  \* the variable lastError: [kind, attempt, wrapped]
    thrown      \* what the call rejected with: [kind, attempt, wrapped], kind "none" before

pvars == <<timeouts, deadline, slept, lastError, thrown>>

vars == <<bvars, svars, rvars, cvars, pvars>>

\* what an operation on a CircuitBreaker object alone leaves untouched
nonBreaker == <<svars, rvars, cvars, pvars>>

\* what a step of a withResilience / withTimeout call leaves untouched
nonStack == <<rvars, cvars, pvars>>

----------------------------------------------------------------------------
(* Bounds of the model *)

MaxTime == 7
MaxThreshold == 2
MaxOps == 4
NumCallers == 2
MaxAttempts == 3
MaxSims == 2
MaxRules == 2
MaxChaosTime == 4
MaxCallbackAttempts == 2

Attempts == 1..MaxAttempts

Callers == 1..NumCallers

\* lastFailureTime: number | null
Null == -1

\* JS truthiness of a `number | null` field (null and 0 are falsy)
Truthy(t) == t # Null /\ t # 0

Max(a, b) == IF a >= b THEN a ELSE b
Min(a, b) == IF a <= b THEN a ELSE b

----------------------------------------------------------------------------
(* CircuitBreaker *)

\* field initialisers: state = 'closed', failureCount = 0, lastFailureTime = null
FreshBreaker == [state |-> "closed", failureCount |-> 0, lastFailureTime |-> Null]

\* constructor: { halfOpenTimeout: options.timeout / 2, ...options }.
\* Returns twice the effective half-open timeout, so that timeout / 2 stays
\* an integer: halfOpenTimeout ?? timeout / 2
HalfOpenTimeout2(o) ==
    IF o.halfOpenTimeout = Null THEN o.timeout ELSE 2 * o.halfOpenTimeout

\* mutant: entering half-open also zeroes failureCount
checkState_zero(b, t, o) ==
    IF b.state = "open" /\ Truthy(b.lastFailureTime)
    THEN IF t - b.lastFailureTime >= o.timeout
         THEN [b EXCEPT !.state = "half-open", !.failureCount = 0]
         ELSE b
    ELSE IF b.state = "half-open" /\ Truthy(b.lastFailureTime)
         THEN IF 2 * (t - b.lastFailureTime) >= HalfOpenTimeout2(o)
              THEN [b EXCEPT !.state = "closed", !.failureCount = 0]
              ELSE b
         ELSE b

\* mutant: the open window must be strictly exceeded
checkState_gt(b, t, o) ==
    IF b.state = "open" /\ Truthy(b.lastFailureTime)
    THEN IF t - b.lastFailureTime > o.timeout
         THEN [b EXCEPT !.state = "half-open"]
         ELSE b
    ELSE IF b.state = "half-open" /\ Truthy(b.lastFailureTime)
         THEN IF 2 * (t - b.lastFailureTime) >= HalfOpenTimeout2(o)
              THEN [b EXCEPT !.state = "closed", !.failureCount = 0]
              ELSE b
         ELSE b

\* mutant: an expired half-open breaker closes with its failureCount kept
checkState_keepCount(b, t, o) ==
    IF b.state = "open" /\ Truthy(b.lastFailureTime)
    THEN IF t - b.lastFailureTime >= o.timeout
         THEN [b EXCEPT !.state = "half-open"]
         ELSE b
    ELSE IF b.state = "half-open" /\ Truthy(b.lastFailureTime)
         THEN IF 2 * (t - b.lastFailureTime) >= HalfOpenTimeout2(o)
              THEN [b EXCEPT !.state = "closed"]
              ELSE b
         ELSE b

\* mutant: a success outside half-open leaves failureCount as it is
onSuccess_keep(b) ==
    IF b.state = "half-open"
    THEN [b EXCEPT !.state = "closed", !.failureCount = 0]
    ELSE b

\* mutant: a half-open success closes the breaker but only decays the count
onSuccess_decay(b) ==
    IF b.state = "half-open"
    THEN [b EXCEPT !.state = "closed", !.failureCount = Max(0, b.failureCount - 1)]
    ELSE IF b.failureCount > 0
         THEN [b EXCEPT !.failureCount = Max(0, b.failureCount - 1)]
         ELSE b

checkState(b, t, o) ==
    IF b.state = "open" /\ Truthy(b.lastFailureTime)
    THEN IF t - b.lastFailureTime >= o.timeout
         THEN [b EXCEPT !.state = "half-open"]
         ELSE b
    ELSE IF b.state = "half-open" /\ Truthy(b.lastFailureTime)
         THEN IF 2 * (t - b.lastFailureTime) >= HalfOpenTimeout2(o)
              THEN [b EXCEPT !.state = "closed", !.failureCount = 0]
              ELSE b
         ELSE b

onSuccess(b) ==
    IF b.state = "half-open"
    THEN [b EXCEPT !.state = "closed", !.failureCount = 0]
    ELSE IF b.failureCount > 0
         THEN [b EXCEPT !.failureCount = Max(0, b.failureCount - 1)]
         ELSE b

\* mutant: only a closed breaker opens on a failure
onFailure_closedOnly(b, t, o) ==
    LET b1 == [b EXCEPT !.failureCount = b.failureCount + 1, !.lastFailureTime = t]
    IN  IF b.state = "closed" /\ b1.failureCount >= o.threshold
        THEN [b1 EXCEPT !.state = "open"]
        ELSE b1

\* mutant: opens only above the threshold
onFailure_gt(b, t, o) ==
    LET b1 == [b EXCEPT !.failureCount = b.failureCount + 1, !.lastFailureTime = t]
    IN  IF b1.failureCount > o.threshold
        THEN [b1 EXCEPT !.state = "open"]
        ELSE b1

onFailure(b, t, o) ==
    LET b1 == [b EXCEPT !.failureCount = b.failureCount + 1, !.lastFailureTime = t]
    IN  IF b1.failureCount >= o.threshold
        THEN [b1 EXCEPT !.state = "open"]
        ELSE b1

\* mutant: reset() clears the counters and leaves the state
reset_keepState(b) == [b EXCEPT !.failureCount = 0, !.lastFailureTime = Null]

\* mutant: reset() leaves failureCount
reset_keepCount(b) == [b EXCEPT !.state = "closed", !.lastFailureTime = Null]

reset(b) == [state |-> "closed", failureCount |-> 0, lastFailureTime |-> Null]

\* mutant: a rejected call counts as a failure
onReject_counts(b, t, o) == onFailure(b, t, o)

\* execute(), circuit open: logs and throws, no field is written
onReject(b, t, o) == b

\* ghost: did this step enter Open from another state
Opened(b, b2) == IF b.state # "open" /\ b2.state = "open" THEN 1 ELSE 0

\* ghost: an operation of the breaker, the fields it found, the time of the
\* call and what the caller got back
Event(e, pre, ret) == [ev |-> e, pre |-> pre, ret |-> ret, at |-> now]

\* ghost: no half-open window is being watched
ProbeIdle == [on |-> FALSE, admitted |-> {}]

\* ghost: this evaluation of checkState moved the breaker into half-open
EnteredHalfOpen(b, b1) == b.state # "half-open" /\ b1.state = "half-open"

\* ghost, execute() of caller c up to the await: entering half-open starts a
\* window; a call that is not rejected is admitted
ProbeAfterStart(c, b, b1) ==
    LET w == IF EnteredHalfOpen(b, b1) THEN [on |-> TRUE, admitted |-> {}] ELSE probe
    IN  IF w.on /\ b1.state # "open"
        THEN [w EXCEPT !.admitted = w.admitted \cup {c}]
        ELSE w

\* ghost, execute() of caller c after the await: the outcome of a call
\* admitted in the window ends the window
ProbeAfterOutcome(c) == IF c \in probe.admitted THEN ProbeIdle ELSE probe

\* ghost, getState(): may enter half-open, admits nothing
ProbeAfterGetState(b, b1) ==
    IF EnteredHalfOpen(b, b1) THEN [on |-> TRUE, admitted |-> {}] ELSE probe

\* execute(), up to the first await: checkState, then either the rejection
\* (circuit open) or the invocation of operation()
ExecuteStart(c) ==
    /\ calls[c] = "idle"
    /\ LET b1 == checkState(breaker, now, opts)
       IN  IF b1.state = "open"
           THEN /\ breaker' = onReject(b1, now, opts)
                /\ last' = Event("reject", breaker, "circuit-open")
                /\ UNCHANGED <<calls, opCount>>
           ELSE /\ opCount < MaxOps
                /\ breaker' = b1
                /\ calls' = [calls EXCEPT ![c] = "running"]
                /\ opCount' = opCount + 1
                /\ last' = Event("invoke", breaker, b1.state)
    /\ probe' = ProbeAfterStart(c, breaker, checkState(breaker, now, opts))
    /\ UNCHANGED <<now, opts, opens>>
    /\ UNCHANGED nonBreaker

\* execute(), after the await: operation() resolved
ExecuteSuccess(c) ==
    /\ calls[c] = "running"
    /\ breaker' = onSuccess(breaker)
    /\ calls' = [calls EXCEPT ![c] = "idle"]
    /\ last' = Event("success", breaker, "value")
    /\ probe' = ProbeAfterOutcome(c)
    /\ UNCHANGED <<now, opts, opCount, opens>>
    /\ UNCHANGED nonBreaker

\* execute(), after the await: operation() rejected
ExecuteFailure(c) ==
    /\ calls[c] = "running"
    /\ breaker' = onFailure(breaker, now, opts)
    /\ opens' = opens + Opened(breaker, breaker')
    /\ calls' = [calls EXCEPT ![c] = "idle"]
    /\ last' = Event("failure", breaker, "op-error")
    /\ probe' = ProbeAfterOutcome(c)
    /\ UNCHANGED <<now, opts, opCount>>
    /\ UNCHANGED nonBreaker

GetState ==
    /\ breaker' = checkState(breaker, now, opts)
    /\ last' = Event("getState", breaker, breaker'.state)
    /\ probe' = ProbeAfterGetState(breaker, breaker')
    /\ UNCHANGED <<now, opts, calls, opCount, opens>>
    /\ UNCHANGED nonBreaker

Reset ==
    /\ breaker' = reset(breaker)
    /\ last' = Event("reset", breaker, "void")
    /\ probe' = ProbeIdle
    /\ UNCHANGED <<now, opts, calls, opCount, opens>>
    /\ UNCHANGED nonBreaker

Tick ==
    /\ now < MaxTime
    /\ now' = now + 1
    /\ UNCHANGED <<probe, opts, breaker, calls, opCount, opens, last>>
    /\ UNCHANGED nonBreaker

\* options the breaker is constructed with
BreakerOptions ==
    [threshold : 1..MaxThreshold, timeout : {2, 4}, halfOpenTimeout : {Null}]

BreakerInit ==
    /\ now = 1
    /\ opts \in BreakerOptions
    /\ breaker = FreshBreaker
    /\ calls = [c \in Callers |-> "idle"]
    /\ opCount = 0
    /\ opens = 0
    /\ last = Event("none", FreshBreaker, "void")
    /\ probe = ProbeIdle

\* no withResilience / withTimeout call is in progress
NoConfig ==
    [cb |-> FALSE, timeout |-> 0, onTimeout |-> FALSE,
     retry |-> FALSE, maxAttempts |-> Null, delayMs |-> Null, chaos |-> FALSE]

StackIdle ==
    /\ attempt = 0
    /\ rpc = "idle"
    /\ wake = 0
    /\ inv = [a \in Attempts |-> "none"]
    /\ timer = [a \in Attempts |-> "none"]
    /\ startAt = [a \in Attempts |-> 0]
    /\ hpc = [a \in Attempts |-> "none"]
    /\ pendAtFire = [a \in Attempts |-> FALSE]
    /\ ares = [a \in Attempts |-> "none"]
    /\ result = "pending"

\* no retry call is in progress
NoRetryCall ==
    [fn |-> "none", maxAttempts |-> Null, delay |-> Null, maxDelayMs |-> Null,
     backoffMultiplier |-> Null, onRetry |-> FALSE]

NoThrow == [isError |-> FALSE, id |-> 0, wrapped |-> FALSE]

RetryIdle ==
    /\ rpos = "idle"
    /\ rattempt = 0
    /\ rdelay = 0
    /\ rsleeps = <<>>
    /\ rcalls = 0
    /\ ronRetry = 0
    /\ rthrown = NoThrow
    /\ rresult = [st |-> "pending", err |-> NoThrow]

\* a page without routes, no simulation running
ChaosIdle ==
    /\ rules = <<>>
    /\ sims = [i \in 1..MaxSims |-> [kind |-> "idle", wake |-> 0]]
    /\ clast = [ev |-> "none", outcome |-> "none"]
    /\ earlyRestore = FALSE
    /\ active = 0

\* no withProgressiveTimeout call
NoError == [kind |-> "none", attempt |-> 0, wrapped |-> FALSE]

ProgressiveIdle ==
    /\ deadline = [a \in Attempts |-> 0]
    /\ slept = <<>>
    /\ lastError = NoError
    /\ thrown = NoError

NoProgressiveCall == timeouts = <<>> /\ ProgressiveIdle

Init ==
    /\ BreakerInit /\ cfg = NoConfig /\ StackIdle /\ rcfg = NoRetryCall /\ RetryIdle /\ ChaosIdle
    /\ NoProgressiveCall

Next ==
    \/ \E c \in Callers : ExecuteStart(c)
    \/ \E c \in Callers : ExecuteSuccess(c)
    \/ \E c \in Callers : ExecuteFailure(c)
    \/ GetState
    \/ Reset
    \/ Tick

Spec == Init /\ [][Next]_vars

----------------------------------------------------------------------------
(* Sequential, always-failing calls inside the open window (C1) *)

\* a call issued within openTimeout of the latest failure
InOpenWindow ==
    breaker.lastFailureTime = Null \/ now - breaker.lastFailureTime < opts.timeout

SeqFailStart == InOpenWindow /\ ExecuteStart(1)

SeqFailNext ==
    \/ SeqFailStart
    \/ ExecuteFailure(1)
    \/ Tick

SpecSeqFail == Init /\ [][SeqFailNext]_vars

\* C1: from a fresh Closed breaker, under sequential always-failing calls made
\* within openTimeout of the latest failure: the breaker is Open exactly from
\* the threshold-th failure on, it entered Open at most once, every later
\* execute() is rejected with the circuit-open error leaving the breaker as
\* it was, and the operation is never invoked more than threshold times.
C1_OpensOnceThenRejects ==
    /\ opens <= 1
    /\ opCount <= opts.threshold
    /\ breaker.failureCount = opCount - (IF calls[1] = "running" THEN 1 ELSE 0)
    /\ (breaker.state = "open") = (breaker.failureCount >= opts.threshold)
    /\ (breaker.state = "open") = (opens = 1)
    /\ last.ev = "invoke" => last.pre.failureCount < opts.threshold
    /\ last.ev = "reject" =>
          /\ opCount = opts.threshold
          /\ breaker = last.pre
          /\ breaker.failureCount = opts.threshold

\* C1 witness: the spec's scenario (threshold 2): two failures, then a
\* rejected third call, operation invoked twice
C1_Witness ==
    /\ opts.threshold = 2
    /\ last.ev = "reject"
    /\ breaker.state = "open"
    /\ breaker.failureCount = 2
    /\ opCount = 2
    /\ opens = 1

----------------------------------------------------------------------------
(* Claims about the breaker under Spec: any interleaving of execute() calls
   of NumCallers callers, getState(), reset() and the passage of time *)

\* the open window had expired when the last operation was called
ExpiredAtCall ==
    /\ last.pre.state = "open"
    /\ last.pre.lastFailureTime # Null
    /\ last.at - last.pre.lastFailureTime >= opts.timeout

\* C2: an evaluation (getState() or execute()) of an Open breaker whose
\* openTimeout has elapsed since lastFailureTime observes HalfOpen before any
\* outcome is recorded: getState() returns 'half-open', execute() is not
\* rejected, enters HalfOpen and invokes the operation.
C2_ExpiredOpenObservesHalfOpen ==
    (last.ev \in {"getState", "invoke", "reject"} /\ ExpiredAtCall) =>
        /\ last.ev # "reject"
        /\ last.ret = "half-open"
        /\ breaker = [last.pre EXCEPT !.state = "half-open"]

\* C2 witness: execute() on an expired Open breaker invoked the operation
\* as a half-open probe, exactly at the boundary now - lastFailureTime = timeout
C2_Witness ==
    /\ last.ev = "invoke"
    /\ ExpiredAtCall
    /\ last.at - last.pre.lastFailureTime = opts.timeout
    /\ breaker.state = "half-open"
    /\ \E c \in Callers : calls[c] = "running"

\* C3: a success recorded while the breaker is HalfOpen sets failureCount
\* to 0 and state to Closed, whatever failureCount was.
C3_HalfOpenSuccessResets ==
    (last.ev = "success" /\ last.pre.state = "half-open") =>
        /\ breaker.state = "closed"
        /\ breaker.failureCount = 0
        /\ breaker.lastFailureTime = last.pre.lastFailureTime

\* C3 witness: a half-open success with a prior failureCount of 2 or more
C3_Witness ==
    /\ last.ev = "success"
    /\ last.pre.state = "half-open"
    /\ last.pre.failureCount >= 2
    /\ breaker.failureCount = 0

----------------------------------------------------------------------------
(* withResilience and TimeoutManager.withTimeout: one call of the wrapped
   operation, Retry(Timeout(CircuitBreaker(op))), each layer present or not.
   A step runs one macrotask together with the promise reactions it causes:
   the settling of an attempt reaches the retry layer in the same step. *)

RECURSIVE Pow(_, _)
Pow(b, e) == IF e = 0 THEN 1 ELSE b * Pow(b, e - 1)

\* const { maxAttempts = 3, delayMs = 1000 } = options.retry
DefaultMaxAttempts == 3
DefaultDelayMs == 1000
MaxAttemptsOf(c) == IF c.maxAttempts = Null THEN DefaultMaxAttempts ELSE c.maxAttempts
DelayMsOf(c) == IF c.delayMs = Null THEN DefaultDelayMs ELSE c.delayMs

\* retry of @kitiumai/test-core, after attempt number n ended with outcome o
\* at time t: a success is returned; the failure of attempt maxAttempts is
\* propagated; otherwise sleep delay x backoff^(n-1) and try again
retryCore(n, o, maxAttempts, delay, backoff, t) ==
    IF o = "value" \/ n >= maxAttempts
    THEN [rpc |-> "done", result |-> o, wake |-> 0]
    ELSE [rpc |-> "sleeping", result |-> "pending", wake |-> t + delay * Pow(backoff, n - 1)]

\* mutant: the retry layer is given one attempt fewer
RetryLayer_short(c, n, o, t) ==
    IF c.retry
    THEN retryCore(n, o, MaxAttemptsOf(c) - 1, DelayMsOf(c), 2, t)
    ELSE [rpc |-> "done", result |-> o, wake |-> 0]

\* withResilience: `if (options.retry)` wraps the operation in retryCore with
\* backoff 2, else the caller awaits the single attempt
RetryLayer(c, n, o, t) ==
    IF c.retry
    THEN retryCore(n, o, MaxAttemptsOf(c), DelayMsOf(c), 2, t)
    ELSE [rpc |-> "done", result |-> o, wake |-> 0]

\* mutant: every attempt executes through a breaker of its own
AttemptBreaker_fresh(b) == FreshBreaker

\* withResilience: the one breaker built per call, captured by the closure
\* that each attempt runs
AttemptBreaker(b) == b

\* the attempt `a` settled with outcome o: what the caller / retry layer does
Settled(a, o) ==
    LET r == RetryLayer(cfg, a, o, now)
    IN  /\ rpc' = r.rpc
        /\ result' = r.result
        /\ wake' = r.wake

\* mutant: options.chaos makes the call install a network-failure handler
ChaosLayer_install(c, rs) ==
    IF c.chaos
    THEN <<[kind |-> "abort", url |-> "**/*", start |-> 0, dur |-> 0, rate |-> 0]>> \o rs
    ELSE rs

\* withResilience: options.chaos is declared in ResilienceOptions and never
\* read; the handlers on the page are what they were
ChaosLayer(c, rs) == rs

\* mutant: the timeout layer is applied whatever options.timeout is
HasTimeout_always(c) == TRUE

\* withResilience: `if (options.timeout)` wraps the operation in withTimeout
HasTimeout(c) == c.timeout # 0

\* An attempt: withTimeout takes startTime, calls operation() (through
\* breaker.execute when there is a breaker, which may reject at once), then
\* arms the timer.
AttemptStart ==
    /\ result = "pending"
    /\ rpc = "idle" \/ (rpc = "sleeping" /\ now >= wake)
    /\ attempt < MaxAttempts
    /\ LET a  == attempt + 1
           b1 == checkState(AttemptBreaker(breaker), now, opts)
           rejected == cfg.cb /\ b1.state = "open"
       IN  /\ attempt' = a
           /\ breaker' = IF cfg.cb
                         THEN IF rejected THEN onReject(b1, now, opts) ELSE b1
                         ELSE breaker
           /\ last' = IF cfg.cb
                      THEN Event(IF rejected THEN "reject" ELSE "invoke", breaker,
                                 IF rejected THEN "circuit-open" ELSE b1.state)
                      ELSE last
           /\ inv' = [inv EXCEPT ![a] = IF rejected THEN "none" ELSE "pending"]
           /\ opCount' = IF rejected THEN opCount ELSE opCount + 1
           /\ timer' = [timer EXCEPT ![a] = IF HasTimeout(cfg) THEN "armed" ELSE "none"]
           /\ startAt' = [startAt EXCEPT ![a] = now]
           /\ IF rejected
              THEN /\ ares' = [ares EXCEPT ![a] = "circuit-open"]
                   /\ Settled(a, "circuit-open")
              ELSE /\ ares' = [ares EXCEPT ![a] = "pending"]
                   /\ rpc' = "running"
                   /\ UNCHANGED <<result, wake>>
    /\ rules' = ChaosLayer(cfg, rules)
    /\ UNCHANGED <<probe, now, opts, calls, opens, cfg, hpc, pendAtFire>>
    /\ UNCHANGED <<rvars, sims, clast, earlyRestore, active, pvars>>

\* op of attempt a settles (ok: resolves, else rejects): breaker.execute
\* resumes and records the outcome; the attempt's promise takes it unless
\* the timeout has already rejected it
OpSettle(a, ok) ==
    /\ inv[a] = "pending"
    /\ inv' = [inv EXCEPT ![a] = IF ok THEN "resolved" ELSE "rejected"]
    /\ breaker' = IF cfg.cb
                  THEN IF ok THEN onSuccess(breaker) ELSE onFailure(breaker, now, opts)
                  ELSE breaker
    /\ opens' = opens + Opened(breaker, breaker')
    /\ last' = IF cfg.cb
               THEN Event(IF ok THEN "success" ELSE "failure", breaker,
                          IF ok THEN "value" ELSE "op-error")
               ELSE last
    /\ IF ares[a] = "pending"
       THEN /\ ares' = [ares EXCEPT ![a] = IF ok THEN "value" ELSE "op-error"]
            /\ Settled(a, IF ok THEN "value" ELSE "op-error")
       ELSE UNCHANGED <<ares, rpc, result, wake>>
    /\ UNCHANGED <<probe, now, opts, calls, opCount, cfg, attempt, timer, startAt, hpc, pendAtFire>>
    /\ UNCHANGED nonStack

\* reject(new Error('Operation timed out ...')) of attempt a: it settles the
\* race only if the operation has not
RejectTimeout(a) ==
    IF ares[a] = "pending"
    THEN /\ ares' = [ares EXCEPT ![a] = "timeout"]
         /\ Settled(a, "timeout")
    ELSE UNCHANGED <<ares, rpc, result, wake>>

\* the setTimeout callback of attempt a (never cleared): handleTimeout logs,
\* then awaits onTimeout when there is one, else rejects
TimerFire(a) ==
    /\ timer[a] = "armed"
    /\ now >= startAt[a] + cfg.timeout
    /\ timer' = [timer EXCEPT ![a] = "fired"]
    /\ pendAtFire' = [pendAtFire EXCEPT ![a] = (ares[a] = "pending")]
    /\ IF cfg.onTimeout
       THEN /\ hpc' = [hpc EXCEPT ![a] = "awaiting"]
            /\ UNCHANGED <<ares, rpc, result, wake>>
       ELSE /\ hpc' = [hpc EXCEPT ![a] = "rejected"]
            /\ RejectTimeout(a)
    /\ UNCHANGED <<bvars, cfg, attempt, inv, startAt>>
    /\ UNCHANGED nonStack

\* onTimeout() of attempt a settles (ok: resolves, and handleTimeout goes on
\* to reject; else it throws and handleTimeout ends without rejecting)
OnTimeoutSettle(a, ok) ==
    /\ hpc[a] = "awaiting"
    /\ IF ok
       THEN /\ hpc' = [hpc EXCEPT ![a] = "rejected"]
            /\ RejectTimeout(a)
       ELSE /\ hpc' = [hpc EXCEPT ![a] = "threw"]
            /\ UNCHANGED <<ares, rpc, result, wake>>
    /\ UNCHANGED <<bvars, cfg, attempt, inv, timer, startAt, pendAtFire>>
    /\ UNCHANGED nonStack

\* time passes; a due timer or a finished sleep runs before the clock moves
StackTick ==
    /\ now < MaxTime
    /\ \A a \in Attempts : ~(timer[a] = "armed" /\ now >= startAt[a] + cfg.timeout)
    /\ ~(rpc = "sleeping" /\ now >= wake /\ attempt < MaxAttempts)
    /\ now' = now + 1
    /\ UNCHANGED <<probe, opts, breaker, calls, opCount, opens, last, svars>>
    /\ UNCHANGED nonStack

\* the options withResilience is called with (chaos is never read)
ResilienceOptions ==
    [cb : BOOLEAN, timeout : {0, 2}, onTimeout : {FALSE},
     retry : {TRUE}, maxAttempts : {Null} \cup (1..MaxAttempts), delayMs : {1},
     chaos : BOOLEAN]
    \cup
    [cb : BOOLEAN, timeout : {0, 2}, onTimeout : {FALSE},
     retry : {FALSE}, maxAttempts : {Null}, delayMs : {Null}, chaos : BOOLEAN]

ResilienceInit ==
    /\ BreakerInit /\ cfg \in ResilienceOptions /\ StackIdle
    /\ rcfg = NoRetryCall /\ RetryIdle /\ ChaosIdle /\ NoProgressiveCall

ResilienceNext ==
    \/ AttemptStart
    \/ \E a \in Attempts, ok \in BOOLEAN : OpSettle(a, ok)
    \/ \E a \in Attempts : TimerFire(a)
    \/ StackTick

SpecResilience == ResilienceInit /\ [][ResilienceNext]_vars

\* the arguments withTimeout is called with directly
TimeoutArgs ==
    [cb : {FALSE}, timeout : {1, 2}, onTimeout : BOOLEAN,
     retry : {FALSE}, maxAttempts : {Null}, delayMs : {Null}, chaos : {FALSE}]

TimeoutInit ==
    /\ BreakerInit /\ cfg \in TimeoutArgs /\ StackIdle
    /\ rcfg = NoRetryCall /\ RetryIdle /\ ChaosIdle /\ NoProgressiveCall

TimeoutNext ==
    \/ AttemptStart
    \/ \E a \in Attempts, ok \in BOOLEAN : OpSettle(a, ok)
    \/ \E a \in Attempts : TimerFire(a)
    \/ \E a \in Attempts, ok \in BOOLEAN : OnTimeoutSettle(a, ok)
    \/ StackTick

SpecTimeout == TimeoutInit /\ [][TimeoutNext]_vars

----------------------------------------------------------------------------
(* Claims about withTimeout (SpecTimeout) and withResilience (SpecResilience) *)

\* C4: withTimeout rejects with the timeout error if and only if the
\* operation was still pending when the deadline timer fired, whatever
\* onTimeout does and however long it takes.
C4_TimeoutIffPendingAtDeadline ==
    \A a \in Attempts :
        ares[a] \in {"value", "op-error", "timeout"} =>
            ((ares[a] = "timeout") = (timer[a] = "fired" /\ pendAtFire[a]))

\* C5: once an attempt has been rejected with the timeout error, the later
\* settlement of its operation is discarded: it changes neither the caller's
\* outcome, nor the retry layer, nor the breaker's counters and state.
C5_LateSettlementDiscarded ==
    [][\A a \in Attempts :
          (ares[a] = "timeout" /\ inv[a] = "pending" /\ inv'[a] # "pending") =>
              /\ breaker' = breaker
              /\ result' = result
              /\ rpc' = rpc
              /\ attempt' = attempt
              /\ ares' = ares]_vars

\* C6: with breaker, timeout and retry configured, the step in which an
\* attempt ends by timeout (and the retry layer decides) counts one breaker
\* failure: failureCount + 1 and lastFailureTime refreshed.
C6_TimeoutCountsAsBreakerFailure ==
    [][\A a \in Attempts :
          (cfg.cb /\ cfg.retry /\ cfg.timeout # 0
              /\ ares[a] = "pending" /\ ares'[a] = "timeout") =>
              /\ breaker'.failureCount = breaker.failureCount + 1
              /\ breaker'.lastFailureTime = now]_vars

\* C7: every attempt of a withResilience call goes through the one breaker
\* of the call: an attempt started while that breaker is Open and inside its
\* open window is rejected with the circuit-open error in the step that
\* starts it, without invoking op and without touching the breaker.
C7_OpenBreakerFailsFast ==
    [][(cfg.cb /\ attempt' = attempt + 1 /\ breaker.state = "open"
          /\ now - breaker.lastFailureTime < opts.timeout) =>
          /\ opCount' = opCount
          /\ inv'[attempt'] = "none"
          /\ ares'[attempt'] = "circuit-open"
          /\ breaker' = breaker
          /\ (cfg.retry /\ attempt' < MaxAttemptsOf(cfg) => rpc' = "sleeping")]_vars

\* C7 witness: breaker + timeout + retry, op failed once and opened the
\* breaker; attempts 2 and 3 were rejected inside the open window, op was
\* invoked once
C7_Witness ==
    /\ cfg.cb /\ cfg.retry /\ cfg.timeout # 0
    /\ attempt = 3
    /\ ares[1] = "op-error"
    /\ ares[2] = "circuit-open"
    /\ ares[3] = "circuit-open"
    /\ startAt[3] - breaker.lastFailureTime < opts.timeout
    /\ opCount = 1
    /\ result = "circuit-open"

RetryOnly == cfg.retry /\ ~cfg.cb /\ cfg.timeout = 0

Failed == {a \in Attempts : inv[a] = "rejected"}

\* C8: withResilience with only retry configured (maxAttempts = n): when op
\* fails k < n times and then succeeds the call returns the success and op
\* was invoked exactly k + 1 times; the call fails only after n failures.
C8_RetryOnlyInvocations ==
    RetryOnly =>
        LET k == Cardinality(Failed)
            n == MaxAttemptsOf(cfg)
        IN  /\ opCount = attempt
            /\ \A a \in 1..k : inv[a] = "rejected"
            /\ (\E a \in Attempts : inv[a] = "resolved") =>
                   /\ rpc = "done" /\ result = "value"
                   /\ k < n
                   /\ opCount = k + 1
                   /\ inv[k + 1] = "resolved"
            /\ (rpc = "done" /\ result # "value") =>
                   /\ result = "op-error"
                   /\ k = n
                   /\ opCount = n
            /\ (rpc = "done" /\ result = "value") => inv[opCount] = "resolved"

\* C8 witness: the spec's case, maxAttempts 3, two failures then a success
C8_Witness ==
    /\ RetryOnly
    /\ cfg.maxAttempts = 3
    /\ Cardinality(Failed) = 2
    /\ inv[3] = "resolved"
    /\ opCount = 3
    /\ rpc = "done"
    /\ result = "value"

----------------------------------------------------------------------------
(* retryWithBackoffLegacy (utils/retry.ts) and CommonPatterns.retryAction
   (patterns/index.ts): one call, the operation failing or succeeding at
   each invocation. Sleeps are recorded, not waited for. *)

LegacyDefaultMaxAttempts == 3
LegacyDefaultInitialDelayMs == 100
LegacyDefaultMaxDelayMs == 5000
LegacyDefaultBackoffMultiplier == 2
RetryActionDefaultMaxAttempts == 3
RetryActionDefaultDelayMs == 1000

OrDefault(v, d) == IF v = Null THEN d ELSE v

\* the destructured options with their defaults
RMaxAttempts(c) ==
    IF c.fn = "legacy" THEN OrDefault(c.maxAttempts, LegacyDefaultMaxAttempts)
    ELSE OrDefault(c.maxAttempts, RetryActionDefaultMaxAttempts)
RDelay(c) ==
    IF c.fn = "legacy" THEN OrDefault(c.delay, LegacyDefaultInitialDelayMs)
    ELSE OrDefault(c.delay, RetryActionDefaultDelayMs)
RMaxDelayMs(c) == OrDefault(c.maxDelayMs, LegacyDefaultMaxDelayMs)
RMultiplier(c) == OrDefault(c.backoffMultiplier, LegacyDefaultBackoffMultiplier)

\* retryWithBackoffLegacy hands the call to retry of test-core
Delegates(c) == c.fn = "legacy" /\ ~c.onRetry /\ c.backoffMultiplier = 2

\* what op may throw: Error objects and a value that is no Error
Throwables ==
    {[isError |-> TRUE, id |-> 1, wrapped |-> FALSE],
     [isError |-> TRUE, id |-> 2, wrapped |-> FALSE],
     [isError |-> FALSE, id |-> 3, wrapped |-> FALSE]}

\* mutant: the thrown value is kept as it is
WrapError_keep(e) == e

\* error instanceof Error ? error : new Error(String(error))
WrapError(e) ==
    IF e.isError THEN e ELSE [isError |-> TRUE, id |-> e.id, wrapped |-> TRUE]

\* mutant: the backoff is not capped
LegacyNextDelay_nocap(d, mult, maxDelay) == d * mult

\* delay = Math.min(delay * backoffMultiplier, maxDelayMs)
LegacyNextDelay(d, mult, maxDelay) == Min(d * mult, maxDelay)

\* const delay = delayMs * 2 ** (attempt - 1)
RetryActionDelay(delayMs, n) == delayMs * Pow(2, n - 1)

RetryArgs ==
    [fn : {"legacy"}, maxAttempts : {Null} \cup (1..MaxAttempts), delay : {Null, 100, 3000},
     maxDelayMs : {Null, 150}, backoffMultiplier : {Null, 1, 2, 3}, onRetry : BOOLEAN]
    \cup
    [fn : {"retryAction"}, maxAttempts : {Null} \cup (1..MaxAttempts), delay : {Null, 100, 3000},
     maxDelayMs : {Null}, backoffMultiplier : {Null}, onRetry : BOOLEAN]

\* the own loop of retryWithBackoffLegacy with maxAttempts <= 0: the test
\* `attempt <= maxAttempts` fails at once and the body never runs
LoopSkipped(c) == c.fn = "legacy" /\ ~Delegates(c) /\ RMaxAttempts(c) <= 0

\* new Error('Retry failed with unknown error')
UnknownError == [isError |-> TRUE, id |-> 0, wrapped |-> FALSE]

\* the call, up to the first invocation of the operation
RetryCall ==
    /\ rpos = "idle"
    /\ ~LoopSkipped(rcfg)
    /\ rattempt' = 1
    /\ rdelay' = RDelay(rcfg)
    /\ rcalls' = rcalls + 1
    /\ rpos' = "await-op"
    /\ UNCHANGED <<rcfg, rsleeps, ronRetry, rthrown, rresult>>
    /\ UNCHANGED <<bvars, svars, cvars, pvars>>

\* the operation resolved: return await operation()
RetryOpResolves ==
    /\ rpos = "await-op"
    /\ rpos' = "done"
    /\ rresult' = [st |-> "value", err |-> NoThrow]
    /\ UNCHANGED <<rcfg, rattempt, rdelay, rsleeps, rcalls, ronRetry, rthrown>>
    /\ UNCHANGED <<bvars, svars, cvars, pvars>>

Rejected(e) == [st |-> "error", err |-> e]

\* the operation threw e: the catch block of the loop that runs
RetryOpThrows(e) ==
    /\ rpos = "await-op"
    /\ rthrown' = e
    /\ IF Delegates(rcfg)
       THEN LET r == retryCore(rattempt, "op-error", RMaxAttempts(rcfg), RDelay(rcfg), 2, 0)
            IN  /\ IF r.rpc = "done"
                   THEN /\ rpos' = "done"
                        /\ rresult' = Rejected(e)
                        /\ UNCHANGED rsleeps
                   ELSE /\ rpos' = "sleep"
                        /\ rsleeps' = Append(rsleeps, r.wake)
                        /\ UNCHANGED rresult
                /\ UNCHANGED <<rdelay, ronRetry>>
       ELSE IF rcfg.fn = "legacy"
       THEN IF rattempt = RMaxAttempts(rcfg)
            THEN /\ rpos' = "done"
                 /\ rresult' = Rejected(WrapError(e))
                 /\ UNCHANGED <<rsleeps, rdelay, ronRetry>>
            ELSE /\ ronRetry' = IF rcfg.onRetry THEN ronRetry + 1 ELSE ronRetry
                 /\ rpos' = "sleep"
                 /\ rsleeps' = Append(rsleeps, rdelay)
                 /\ rdelay' = LegacyNextDelay(rdelay, RMultiplier(rcfg), RMaxDelayMs(rcfg))
                 /\ UNCHANGED rresult
       ELSE /\ ronRetry' = IF rcfg.onRetry THEN ronRetry + 1 ELSE ronRetry
            /\ IF rattempt < RMaxAttempts(rcfg)
               THEN /\ rpos' = "sleep"
                    /\ rsleeps' = Append(rsleeps, RetryActionDelay(RDelay(rcfg), rattempt))
                    /\ UNCHANGED rresult
               ELSE /\ rpos' = "done"
                    /\ rresult' = Rejected(WrapError(e))
                    /\ UNCHANGED rsleeps
            /\ UNCHANGED rdelay
    /\ UNCHANGED <<rcfg, rattempt, rcalls>>
    /\ UNCHANGED <<bvars, svars, cvars, pvars>>

\* the sleep is over: next iteration, the operation is invoked again
RetryWake ==
    /\ rpos = "sleep"
    /\ rattempt' = rattempt + 1
    /\ rcalls' = rcalls + 1
    /\ rpos' = "await-op"
    /\ UNCHANGED <<rcfg, rdelay, rsleeps, ronRetry, rthrown, rresult>>
    /\ UNCHANGED <<bvars, svars, cvars, pvars>>

\* the call with maxAttempts <= 0: no iteration, lastError is undefined and
\* the generic error is thrown
RetryNoAttempts ==
    /\ rpos = "idle"
    /\ LoopSkipped(rcfg)
    /\ rpos' = "done"
    /\ rresult' = Rejected(UnknownError)
    /\ UNCHANGED <<rcfg, rattempt, rdelay, rsleeps, rcalls, ronRetry, rthrown>>
    /\ UNCHANGED <<bvars, svars, cvars, pvars>>

RetryInit ==
    /\ BreakerInit /\ opts.threshold = 1 /\ opts.timeout = 2
    /\ cfg = NoConfig /\ StackIdle /\ ChaosIdle /\ NoProgressiveCall
    /\ rcfg \in RetryArgs /\ RetryIdle

RetryNext ==
    \/ RetryCall
    \/ RetryOpResolves
    \/ \E e \in Throwables : RetryOpThrows(e)
    \/ RetryWake

SpecRetry == RetryInit /\ [][RetryNext]_vars

\* the operation has failed at every invocation so far
AlwaysFailed == rresult.st # "value" /\ Len(rsleeps) >= rcalls - 1

C9_Sleep(k) ==
    LET base == RDelay(rcfg)
        mult == IF rcfg.fn = "retryAction" \/ rcfg.backoffMultiplier = Null
                THEN 2 ELSE rcfg.backoffMultiplier
        cap  == IF rcfg.maxDelayMs = Null THEN 5000 ELSE rcfg.maxDelayMs
        ownLegacyLoop == rcfg.fn = "legacy" /\ (rcfg.onRetry \/ rcfg.backoffMultiplier # 2)
    IN  IF ownLegacyLoop /\ k > 1 /\ base * Pow(mult, k - 1) > cap
        THEN cap
        ELSE base * Pow(mult, k - 1)

----------------------------------------------------------------------------
(* ChaosInjector: the routes it installs on the page, all for the url
   '**/*'. simulateNetworkFailure and simulateServerErrors sleep and then
   unroute; the other operations return at once. *)

\* page.route(url, handler): the handler is added in front, so that the most
\* recently routed handler sees a request first
route(rs, h) == <<h>> \o rs

\* page.unroute(url): every handler routed for that url is removed
unroute(rs, url) == SelectSeq(rs, LAMBDA h : h.url # url)

Rule(kind, start, dur, rate) ==
    [url |-> "**/*", kind |-> kind, start |-> start, dur |-> dur, rate |-> rate]

\* mutant: restore unroutes a url nothing was routed for
restore_otherUrl(rs) == unroute(rs, "**")

\* restore() that drops only the handler added last
restore_newest(rs) == IF rs = <<>> THEN rs ELSE Tail(rs)

\* restore(): await this.page.unroute('**/*')
restore(rs) == unroute(rs, "**/*")

\* the cleanup of simulateNetworkFailure / simulateServerErrors after the sleep
cleanup(rs) == unroute(rs, "**/*")

\* a request on the page: the first handler decides (coin: Math.random() in
\* percent); without handlers the request goes to the network
handle(rs, t, coin) ==
    IF rs = <<>> THEN "real"
    ELSE LET h == Head(rs)
         IN  CASE h.kind = "abort" -> "aborted"
               [] h.kind = "slow" -> "delayed"
               [] h.kind = "random" -> IF coin < h.rate THEN "aborted" ELSE "real"
               [] h.kind = "server-error" -> IF t - h.start < h.dur THEN "status" ELSE "real"

Sims == 1..MaxSims
Durations == {1, 2}
IdleSim == [kind |-> "idle", wake |-> 0]

\* how many handlers a restore() found installed
Removed(rs) ==
    IF rs = <<>> THEN "removed-none"
    ELSE IF Len(rs) = 1 THEN "removed-one" ELSE "removed-several"
ChaosEvent(e, o) == [ev |-> e, outcome |-> o]

\* simulateNetworkFailure(d), up to the sleep
SimulateNetworkFailure(i, d) ==
    /\ sims[i] = IdleSim
    /\ Len(rules) < MaxRules
    /\ rules' = route(rules, Rule("abort", 0, 0, 0))
    /\ sims' = [sims EXCEPT ![i] = [kind |-> "networkFailure", wake |-> now + d]]
    /\ clast' = ChaosEvent("install", "abort")
    /\ earlyRestore' = FALSE
    /\ active' = i
    /\ UNCHANGED <<bvars, svars, rvars, pvars>>

\* simulateNetworkFailure, after the sleep: unroute
NetworkFailureEnd(i) ==
    /\ sims[i].kind = "networkFailure"
    /\ now >= sims[i].wake
    /\ rules' = cleanup(rules)
    /\ sims' = [sims EXCEPT ![i] = IdleSim]
    /\ clast' = ChaosEvent("cleanup", "networkFailure")
    /\ UNCHANGED <<earlyRestore, active>>
    /\ UNCHANGED <<bvars, svars, rvars, pvars>>

SimulateSlowNetwork ==
    /\ Len(rules) < MaxRules
    /\ rules' = route(rules, Rule("slow", 0, 0, 0))
    /\ clast' = ChaosEvent("install", "slow")
    /\ earlyRestore' = FALSE
    /\ active' = 0
    /\ UNCHANGED sims
    /\ UNCHANGED <<bvars, svars, rvars, pvars>>

SimulateRandomFailures(rate) ==
    /\ Len(rules) < MaxRules
    /\ rules' = route(rules, Rule("random", 0, 0, rate))
    /\ clast' = ChaosEvent("install", "random")
    /\ earlyRestore' = FALSE
    /\ active' = 0
    /\ UNCHANGED sims
    /\ UNCHANGED <<bvars, svars, rvars, pvars>>

\* simulateServerErrors(status, d), up to the sleep
SimulateServerErrors(i, d) ==
    /\ sims[i] = IdleSim
    /\ Len(rules) < MaxRules
    /\ rules' = route(rules, Rule("server-error", now, d, 0))
    /\ sims' = [sims EXCEPT ![i] = [kind |-> "serverErrors", wake |-> now + d]]
    /\ clast' = ChaosEvent("install", "server-error")
    /\ earlyRestore' = FALSE
    /\ active' = i
    /\ UNCHANGED <<bvars, svars, rvars, pvars>>

\* simulateServerErrors, after the sleep: unroute
ServerErrorsEnd(i) ==
    /\ sims[i].kind = "serverErrors"
    /\ now >= sims[i].wake
    /\ rules' = cleanup(rules)
    /\ sims' = [sims EXCEPT ![i] = IdleSim]
    /\ clast' = ChaosEvent("cleanup", "serverErrors")
    /\ UNCHANGED <<earlyRestore, active>>
    /\ UNCHANGED <<bvars, svars, rvars, pvars>>

Restore ==
    /\ rules' = restore(rules)
    /\ clast' = ChaosEvent("restore", Removed(rules))
    /\ earlyRestore' = \E i \in Sims : sims[i].kind = "networkFailure" /\ now < sims[i].wake
    /\ active' = 0
    /\ UNCHANGED sims
    /\ UNCHANGED <<bvars, svars, rvars, pvars>>

\* the page issues a request
Request(coin) ==
    /\ clast' = ChaosEvent("request", handle(rules, now, coin))
    /\ UNCHANGED <<rules, sims, earlyRestore, active>>
    /\ UNCHANGED <<bvars, svars, rvars, pvars>>

\* time passes; a sleep that is over ends before the clock moves
ChaosTick ==
    /\ now < MaxChaosTime
    /\ \A i \in Sims : sims[i].kind = "idle" \/ now < sims[i].wake
    /\ now' = now + 1
    /\ UNCHANGED <<probe, opts, breaker, calls, opCount, opens, last>>
    /\ UNCHANGED <<svars, rvars, cvars, pvars>>

ChaosInit ==
    /\ BreakerInit /\ opts.threshold = 1 /\ opts.timeout = 2
    /\ cfg = NoConfig /\ StackIdle
    /\ rcfg = NoRetryCall /\ RetryIdle
    /\ ChaosIdle /\ NoProgressiveCall

ChaosNext ==
    \/ \E i \in Sims, d \in Durations : SimulateNetworkFailure(i, d)
    \/ \E i \in Sims : NetworkFailureEnd(i)
    \/ SimulateSlowNetwork
    \/ \E rate \in {0, 50, 100} : SimulateRandomFailures(rate)
    \/ \E i \in Sims, d \in Durations : SimulateServerErrors(i, d)
    \/ \E i \in Sims : ServerErrorsEnd(i)
    \/ Restore
    \/ \E coin \in {0, 99} : Request(coin)
    \/ ChaosTick

SpecChaos == ChaosInit /\ [][ChaosNext]_vars

\* C10: after a restore() called while a simulateNetworkFailure(d) is
\* pending (rule installed, d not elapsed), and as long as nothing is
\* installed again, no rule is installed and a request reaches the real
\* handler, also after d has elapsed and the simulation's cleanup has run.
C10_RestoreDuringFailureClears ==
    earlyRestore =>
        /\ rules = <<>>
        /\ clast.ev = "request" => clast.outcome = "real"

\* C10 witness: restore() during the failure window, then the simulation's
\* own cleanup, then a request that reached the real handler
C10_Witness ==
    /\ earlyRestore
    /\ \A i \in Sims : sims[i] = IdleSim
    /\ clast = ChaosEvent("request", "real")
    /\ rules = <<>>

\* C11: at every moment at most one interception rule is installed on the
\* page; installing a policy replaces the one before it and never stacks.
C11_AtMostOneRule ==
    /\ Len(rules) <= 1
    /\ clast.ev = "install" => Len(rules) = 1

\* C17: restore() removes every installed rule, whatever policy installed
\* it, and is idempotent: restoring with nothing installed, or twice in a
\* row, leaves the page as one restore does.
C17_RestoreRemovesAll ==
    /\ clast.ev = "restore" => rules = <<>>
    /\ restore(rules) = <<>>
    /\ restore(restore(rules)) = restore(rules)

\* C17 witness: a restore() that found several handlers installed and left
\* none, while a simulation is still pending
C17_Witness ==
    /\ clast = ChaosEvent("restore", "removed-several")
    /\ rules = <<>>
    /\ \E i \in Sims : sims[i].kind # "idle"

HasSlow(rs) == \E k \in 1..Len(rs) : rs[k].kind = "slow"

\* C18: the rule installed by simulateSlowNetwork stays installed until a
\* restore(): no step other than restore() removes it, neither the passage
\* of time nor the cleanup of a simulateNetworkFailure / simulateServerErrors
\* started earlier and still pending.
C18_SlowStaysUntilRestore ==
    [][(HasSlow(rules) /\ ~HasSlow(rules')) => clast'.ev = "restore"]_vars

\* the handler kind and the request outcome of a simulation that restores by
\* itself
KindOf(sim) == IF sim.kind = "networkFailure" THEN "abort" ELSE "server-error"
OutcomeOf(sim) == IF sim.kind = "networkFailure" THEN "aborted" ELSE "status"

\* C19: for the simulateNetworkFailure(d) / simulateServerErrors(status, d)
\* call whose policy was installed last (nothing installed or restored
\* since): before d has elapsed its rule is installed and every request is
\* aborted (resp. fulfilled with the status); the clock does not pass d with
\* the call still pending; once the call has ended no rule is installed and
\* requests proceed normally, without restore().
C19_AutoRestoreWindow ==
    \A i \in Sims :
        active = i =>
            /\ (sims[i].kind # "idle" /\ now < sims[i].wake) =>
                   /\ rules # <<>>
                   /\ Head(rules).kind = KindOf(sims[i])
                   /\ clast.ev = "request" => clast.outcome = OutcomeOf(sims[i])
            /\ sims[i].kind # "idle" => now <= sims[i].wake
            /\ sims[i] = IdleSim =>
                   /\ rules = <<>>
                   /\ clast.ev = "request" => clast.outcome = "real"

----------------------------------------------------------------------------
NoLayers == ~cfg.cb /\ cfg.timeout = 0 /\ ~cfg.retry

\* C13: a layer whose option is absent does nothing: without circuitBreaker
\* no breaker is consulted and nothing fails fast, without timeout no timer
\* is armed and nothing times out, without retry there is one attempt; with
\* all three absent the operation is invoked once and the call settles with
\* exactly its value or its error.
C13_AbsentLayersAbsent ==
    /\ ~cfg.cb => (breaker = FreshBreaker /\ last.ev = "none" /\ result # "circuit-open")
    /\ cfg.timeout = 0 => ((\A a \in Attempts : timer[a] = "none") /\ result # "timeout")
    /\ ~cfg.retry => (attempt <= 1 /\ rpc # "sleeping")
    /\ NoLayers =>
          /\ opCount = attempt
          /\ attempt = 0 => result = "pending"
          /\ attempt = 1 =>
                result = CASE inv[1] = "resolved" -> "value"
                           [] inv[1] = "rejected" -> "op-error"
                           [] OTHER -> "pending"

\* C13 witness: no layer configured, the operation was invoked once, failed
\* after some time, and the call rejected with the operation's error
C13_Witness ==
    /\ NoLayers
    /\ opCount = 1
    /\ inv[1] = "rejected"
    /\ result = "op-error"
    /\ now > startAt[1]

----------------------------------------------------------------------------
\* C14: whenever the breaker is open, lastFailureTime is set (not null).
C14_OpenHasFailureTime ==
    breaker.state = "open" => breaker.lastFailureTime # Null

\* C14 witness: the breaker opened on a failure recorded when lastFailureTime
\* was null (first failure, or the first one after a reset())
C14_Witness ==
    /\ breaker.state = "open"
    /\ last.ev = "failure"
    /\ last.pre.lastFailureTime = Null
    /\ now > 1

\* C15: an execute() rejected because the circuit is open writes no field of
\* the breaker: state, failureCount and lastFailureTime are what they were
\* before the call, rejection after rejection.
C15_RejectionChangesNothing ==
    last.ev = "reject" => (breaker = last.pre /\ breaker.state = "open")

\* C15 witness: a rejection while another call, started before the circuit
\* opened, is still awaiting its operation
C15_Witness ==
    /\ last.ev = "reject"
    /\ breaker.failureCount = MaxThreshold
    /\ \E c \in Callers : calls[c] = "running"

\* C16: reset() called in any state leaves the breaker closed with
\* failureCount 0 and lastFailureTime null; a getState() on the breaker so
\* left returns 'closed'; a second reset() changes nothing.
C16_ResetRestoresFresh ==
    /\ last.ev = "reset" => breaker = FreshBreaker
    /\ reset(breaker) = FreshBreaker
    /\ reset(reset(breaker)) = reset(breaker)
    /\ (last.ev = "getState" /\ last.pre = FreshBreaker) =>
          (last.ret = "closed" /\ breaker = FreshBreaker)

\* C16 witness: reset() of an open breaker with failures counted, while a
\* call is in flight
C16_Witness ==
    /\ last.ev = "reset"
    /\ last.pre.state = "open"
    /\ last.pre.failureCount = MaxThreshold
    /\ breaker = FreshBreaker
    /\ \E c \in Callers : calls[c] = "running"

----------------------------------------------------------------------------
(***************************************************************************)
(* The breaker with a logger that may fail.  The logger is an external     *)
(* collaborator; lt says whether the logger calls made during the step     *)
(* throw.  No logger call of the breaker is guarded, so an exception       *)
(* leaves the method at the call, after the assignments made before it.    *)
(***************************************************************************)

\* execute(), up to the first await.  checkState logs after a transition;
\* the open branch logs before it throws.
LogExecuteStart(c, lt) ==
    /\ calls[c] = "idle"
    /\ LET b1 == checkState(breaker, now, opts)
       IN  IF lt /\ b1 # breaker
           THEN /\ breaker' = b1
                /\ last' = Event("check-threw", breaker, "logger-error")
                /\ UNCHANGED <<calls, opCount>>
           ELSE IF b1.state = "open"
           THEN /\ breaker' = onReject(b1, now, opts)
                /\ last' = Event("reject", breaker,
                                 IF lt THEN "logger-error" ELSE "circuit-open")
                /\ UNCHANGED <<calls, opCount>>
           ELSE /\ opCount < MaxOps
                /\ breaker' = b1
                /\ calls' = [calls EXCEPT ![c] = "running"]
                /\ opCount' = opCount + 1
                /\ last' = Event("invoke", breaker, b1.state)
    /\ UNCHANGED <<probe, now, opts, opens>>
    /\ UNCHANGED nonBreaker

\* execute(), operation() resolved: onSuccess() runs inside the try block,
\* so an exception of its logger.info (half-open branch) is caught by the
\* catch clause, which calls onFailure() and throws
LogExecuteSuccess(c, lt) ==
    /\ calls[c] = "running"
    /\ LET threw == lt /\ breaker.state = "half-open"
       IN  /\ breaker' = IF threw
                         THEN onFailure(onSuccess(breaker), now, opts)
                         ELSE onSuccess(breaker)
           /\ last' = Event("success", breaker,
                            IF threw THEN "logger-error" ELSE "value")
    /\ opens' = opens + Opened(breaker, breaker')
    /\ calls' = [calls EXCEPT ![c] = "idle"]
    /\ UNCHANGED <<probe, now, opts, opCount>>
    /\ UNCHANGED nonBreaker

\* execute(), operation() rejected: onFailure() logs when it opens the
\* circuit; an exception of that call replaces the operation's error
LogExecuteFailure(c, lt) ==
    /\ calls[c] = "running"
    /\ breaker' = onFailure(breaker, now, opts)
    /\ last' = Event("failure", breaker,
                     IF lt /\ breaker'.failureCount >= opts.threshold
                     THEN "logger-error" ELSE "op-error")
    /\ opens' = opens + Opened(breaker, breaker')
    /\ calls' = [calls EXCEPT ![c] = "idle"]
    /\ UNCHANGED <<probe, now, opts, opCount>>
    /\ UNCHANGED nonBreaker

LogGetState(lt) ==
    /\ breaker' = checkState(breaker, now, opts)
    /\ last' = Event("getState", breaker,
                     IF lt /\ breaker' # breaker THEN "logger-error" ELSE breaker'.state)
    /\ UNCHANGED <<probe, now, opts, calls, opCount, opens>>
    /\ UNCHANGED nonBreaker

LogReset(lt) ==
    /\ breaker' = reset(breaker)
    /\ last' = Event("reset", breaker, IF lt THEN "logger-error" ELSE "void")
    /\ UNCHANGED <<probe, now, opts, calls, opCount, opens>>
    /\ UNCHANGED nonBreaker

LoggerNext ==
    \/ \E c \in Callers, lt \in BOOLEAN : LogExecuteStart(c, lt)
    \/ \E c \in Callers, lt \in BOOLEAN : LogExecuteSuccess(c, lt)
    \/ \E c \in Callers, lt \in BOOLEAN : LogExecuteFailure(c, lt)
    \/ \E lt \in BOOLEAN : LogGetState(lt)
    \/ \E lt \in BOOLEAN : LogReset(lt)
    \/ Tick

SpecLogger == Init /\ [][LoggerNext]_vars

\* C12: every execute() that settles does so with the operation's value, the
\* circuit-open error, the timeout error or the operation's own error, and
\* a failed operation never yields a value.
C12_OutcomeIsOneOfFour ==
    /\ last.ev \in {"reject", "success", "failure", "check-threw"} =>
          last.ret \in {"value", "circuit-open", "timeout", "op-error"}
    /\ last.ev = "failure" => last.ret # "value"

\* C20: a logger call that throws changes neither what execute() returns or
\* throws nor the fields of the breaker afterwards: a rejection still throws
\* the circuit-open error, a resolved operation still returns its value and
\* is recorded by onSuccess, a failed one still throws its own error and is
\* recorded by onFailure, and no call fails inside checkState.
C20_LoggingNeverAltersOutcome ==
    /\ last.ev # "check-threw"
    /\ last.ev = "reject" => (last.ret = "circuit-open" /\ breaker = last.pre)
    /\ last.ev = "success" => (last.ret = "value" /\ breaker = onSuccess(last.pre))
    /\ last.ev = "failure" =>
          (last.ret = "op-error" /\ breaker = onFailure(last.pre, last.at, opts))

----------------------------------------------------------------------------
\* execute() calls made one after another by a single caller, with getState()
\* and reset() in between
SequentialNext ==
    \/ ExecuteStart(1)
    \/ ExecuteSuccess(1)
    \/ ExecuteFailure(1)
    \/ GetState
    \/ Reset
    \/ Tick

SpecSequential == Init /\ [][SequentialNext]_vars

\* C23: a half-open breaker never becomes closed on its own: it leaves
\* half-open for closed only when a success is recorded or reset() is called,
\* and a getState() on a half-open breaker returns 'half-open' and changes
\* no field, however long ago the breaker entered half-open.
C23_HalfOpenNeverRevertsAlone ==
    [][/\ (breaker.state = "half-open" /\ breaker'.state = "closed") =>
            last'.ev \in {"success", "reset"}
       /\ (breaker.state = "half-open" /\ last' # last /\ last'.ev = "getState") =>
            (last'.ret = "half-open" /\ breaker' = breaker)]_vars

\* C24: between the moment the breaker enters half-open and the recording of
\* the outcome of a call admitted since, at most one call is admitted (its
\* operation invoked), also with overlapping callers.
C24_SingleProbe ==
    Cardinality(probe.admitted) <= 1

\* C27: for a success recorded on a closed breaker, failureCount becomes
\* max(0, failureCount - 1) and state and lastFailureTime stay; for a failure
\* recorded on a closed breaker, failureCount grows by exactly 1,
\* lastFailureTime becomes the current time and the breaker is open
\* afterwards if and only if the new failureCount >= threshold.
C27_ClosedBookkeeping ==
    /\ (last.ev = "success" /\ last.pre.state = "closed") =>
          breaker = [last.pre EXCEPT !.failureCount = Max(0, last.pre.failureCount - 1)]
    /\ (last.ev = "failure" /\ last.pre.state = "closed") =>
          /\ breaker.failureCount = last.pre.failureCount + 1
          /\ breaker.lastFailureTime = last.at
          /\ breaker.state \in {"closed", "open"}
          /\ (breaker.state = "open") <=> (breaker.failureCount >= opts.threshold)

\* C27 witness: a success recorded on a closed breaker that had a failure
\* counted, which took the count down by one and left lastFailureTime
C27_Witness ==
    /\ last.ev = "success"
    /\ last.pre.state = "closed"
    /\ last.pre.failureCount > 0
    /\ breaker.failureCount = last.pre.failureCount - 1
    /\ breaker.lastFailureTime # Null

\* C28: a success recorded while the breaker is open leaves failureCount as
\* it is, and one recorded while it is half-open sets it to 0: the decay by
\* one belongs to closed-state successes only, under any interleaving.
C28_DecayOnlyWhenClosed ==
    /\ (last.ev = "success" /\ last.pre.state = "open") =>
          breaker.failureCount = last.pre.failureCount
    /\ (last.ev = "success" /\ last.pre.state = "half-open") =>
          breaker.failureCount = 0

\* C29: a failure recorded on a half-open breaker adds 1 to failureCount,
\* sets lastFailureTime to the current time and opens the breaker iff the new
\* count >= threshold; with sequential calls a half-open breaker has
\* failureCount >= threshold, so the failed probe leaves it open.
C29_HalfOpenFailureReopens ==
    /\ breaker.state = "half-open" => breaker.failureCount >= opts.threshold
    /\ (last.ev = "failure" /\ last.pre.state = "half-open") =>
          /\ breaker.failureCount = last.pre.failureCount + 1
          /\ breaker.lastFailureTime = last.at
          /\ (breaker.state = "open") <=> (breaker.failureCount >= opts.threshold)
          /\ breaker.state = "open"

\* C29 witness: the probe of a half-open breaker failed and the breaker is
\* open again, its window starting at the time of that failure
C29_Witness ==
    /\ last.ev = "failure"
    /\ last.pre.state = "half-open"
    /\ breaker.state = "open"
    /\ breaker.lastFailureTime = last.at
    /\ last.at > last.pre.lastFailureTime

\* C30: the fields of the breaker change only in a step of execute(),
\* getState() or reset(), never in a step where only time passes; a
\* getState() invokes no operation and leaves failureCount of a closed or
\* open breaker as it is.
C30_LazyEvaluation ==
    [][/\ breaker' # breaker => (now' = now /\ last' # last)
       /\ last'.ev = "getState" =>
            /\ opCount' = opCount
            /\ calls' = calls
            /\ breaker.state \in {"closed", "open"} =>
                  breaker'.failureCount = breaker.failureCount]_vars

\* C30 witness: the open window ran out while nothing was called, the
\* breaker stayed open until a getState() moved it to half-open
C30_Witness ==
    /\ last.ev = "getState"
    /\ last.pre.state = "open"
    /\ last.at - last.pre.lastFailureTime > opts.timeout
    /\ breaker.state = "half-open"
    /\ breaker.failureCount = last.pre.failureCount

----------------------------------------------------------------------------
\* C25: during one call of withResilience at most one invocation of the
\* operation is in flight (started and not settled): no attempt starts while
\* the invocation of an earlier, timed-out attempt is still running.
C25_OneInvocationInFlight ==
    Cardinality({a \in Attempts : inv[a] = "pending"}) <= 1

----------------------------------------------------------------------------
(***************************************************************************)
(* TimeoutManager.withProgressiveTimeout(operation, timeouts, onTimeout).  *)
(* The clock is in milliseconds and moves from one due time to the next.   *)
(***************************************************************************)
DefaultProgressiveTimeoutMs == 30000
ProgressiveBaseDelayMs == 1000

\* mutant: every attempt gets the first element
TimeoutFor_first(ts, k) ==
    IF ts[1] # Null THEN ts[1] ELSE DefaultProgressiveTimeoutMs

\* timeouts[attempt] ?? timeouts[timeouts.length - 1] ?? 30000, for the
\* 0-based loop variable k
TimeoutFor(ts, k) ==
    IF ts[k + 1] # Null THEN ts[k + 1]
    ELSE IF ts[Len(ts)] # Null THEN ts[Len(ts)]
    ELSE DefaultProgressiveTimeoutMs

\* mutant: the same delay after every failed attempt
ProgressiveDelay_flat(k) == ProgressiveBaseDelayMs

\* sleep(1000 * (attempt + 1)), for the 0-based loop variable k
ProgressiveDelay(k) == ProgressiveBaseDelayMs * (k + 1)

\* lastError = error instanceof Error ? error : new Error(String(error))
ProgressiveError(kind, a, isError) ==
    [kind |-> kind, attempt |-> a, wrapped |-> ~isError]

\* the promise of attempt a settled with o: `return await` for a value, else
\* the catch clause, which sleeps unless this was the last element
PSettled(a, o, isError) ==
    IF o = "value"
    THEN /\ rpc' = "done"
         /\ result' = "value"
         /\ UNCHANGED <<wake, slept, lastError, thrown>>
    ELSE /\ lastError' = ProgressiveError(o, a, isError)
         /\ IF a - 1 < Len(timeouts) - 1
            THEN /\ rpc' = "sleeping"
                 /\ wake' = now + ProgressiveDelay(a - 1)
                 /\ slept' = Append(slept, ProgressiveDelay(a - 1))
                 /\ UNCHANGED <<result, thrown>>
            ELSE /\ rpc' = "done"
                 /\ result' = o
                 /\ thrown' = lastError'
                 /\ UNCHANGED <<wake, slept>>

\* an iteration of the loop: withTimeout(operation, timeouts[attempt] ?? ...)
\* invokes the operation and arms the timer
PAttemptStart ==
    /\ result = "pending"
    /\ rpc = "idle" \/ (rpc = "sleeping" /\ now >= wake)
    /\ attempt < Len(timeouts)
    /\ LET a == attempt + 1
       IN  /\ attempt' = a
           /\ deadline' = [deadline EXCEPT ![a] = TimeoutFor(timeouts, a - 1)]
           /\ inv' = [inv EXCEPT ![a] = "pending"]
           /\ timer' = [timer EXCEPT ![a] = "armed"]
           /\ startAt' = [startAt EXCEPT ![a] = now]
           /\ ares' = [ares EXCEPT ![a] = "pending"]
    /\ opCount' = opCount + 1
    /\ rpc' = "running"
    /\ UNCHANGED <<probe, now, opts, breaker, calls, opens, last>>
    /\ UNCHANGED <<cfg, wake, hpc, pendAtFire, result>>
    /\ UNCHANGED <<timeouts, slept, lastError, thrown>>
    /\ UNCHANGED <<rvars, cvars>>

\* an empty list: the loop body never runs and the call throws
\* new Error('Operation failed after all timeout attempts')
PNoAttempts ==
    /\ rpc = "idle"
    /\ Len(timeouts) = 0
    /\ rpc' = "done"
    /\ result' = "exhausted"
    /\ thrown' = [kind |-> "exhausted", attempt |-> 0, wrapped |-> FALSE]
    /\ UNCHANGED bvars
    /\ UNCHANGED <<cfg, attempt, wake, inv, timer, startAt, hpc, pendAtFire, ares>>
    /\ UNCHANGED <<timeouts, deadline, slept, lastError>>
    /\ UNCHANGED <<rvars, cvars>>

\* the operation invoked by attempt a settles (ok: resolves; else rejects
\* with an Error or with another value)
POpSettle(a, ok, isError) ==
    /\ inv[a] = "pending"
    /\ inv' = [inv EXCEPT ![a] = IF ok THEN "resolved" ELSE "rejected"]
    /\ IF ares[a] = "pending"
       THEN /\ ares' = [ares EXCEPT ![a] = IF ok THEN "value" ELSE "op-error"]
            /\ PSettled(a, IF ok THEN "value" ELSE "op-error", isError)
       ELSE UNCHANGED <<ares, rpc, result, wake, slept, lastError, thrown>>
    /\ UNCHANGED bvars
    /\ UNCHANGED <<cfg, attempt, timer, startAt, hpc, pendAtFire>>
    /\ UNCHANGED <<timeouts, deadline>>
    /\ UNCHANGED <<rvars, cvars>>

\* reject(new Error('Operation timed out ...')) of attempt a
PRejectTimeout(a) ==
    IF ares[a] = "pending"
    THEN /\ ares' = [ares EXCEPT ![a] = "timeout"]
         /\ PSettled(a, "timeout", TRUE)
    ELSE UNCHANGED <<ares, rpc, result, wake, slept, lastError, thrown>>

\* the timer of attempt a (never cleared): handleTimeout awaits the wrapper
\* passed by withProgressiveTimeout, which awaits onTimeout(attempt) when the
\* caller gave one, then rejects
PTimerFire(a) ==
    /\ timer[a] = "armed"
    /\ now >= startAt[a] + deadline[a]
    /\ timer' = [timer EXCEPT ![a] = "fired"]
    /\ pendAtFire' = [pendAtFire EXCEPT ![a] = (ares[a] = "pending")]
    /\ IF cfg.onTimeout
       THEN /\ hpc' = [hpc EXCEPT ![a] = "awaiting"]
            /\ UNCHANGED <<ares, rpc, result, wake, slept, lastError, thrown>>
       ELSE /\ hpc' = [hpc EXCEPT ![a] = "rejected"]
            /\ PRejectTimeout(a)
    /\ UNCHANGED bvars
    /\ UNCHANGED <<cfg, attempt, inv, startAt>>
    /\ UNCHANGED <<timeouts, deadline>>
    /\ UNCHANGED <<rvars, cvars>>

\* onTimeout(attempt) settles (ok: resolves and handleTimeout rejects; else
\* it throws and handleTimeout ends without rejecting)
POnTimeoutSettle(a, ok) ==
    /\ hpc[a] = "awaiting"
    /\ IF ok
       THEN /\ hpc' = [hpc EXCEPT ![a] = "rejected"]
            /\ PRejectTimeout(a)
       ELSE /\ hpc' = [hpc EXCEPT ![a] = "threw"]
            /\ UNCHANGED <<ares, rpc, result, wake, slept, lastError, thrown>>
    /\ UNCHANGED bvars
    /\ UNCHANGED <<cfg, attempt, inv, timer, startAt, pendAtFire>>
    /\ UNCHANGED <<timeouts, deadline>>
    /\ UNCHANGED <<rvars, cvars>>

\* the times at which a timer or the sleep is due
DueTimes ==
    {startAt[a] + deadline[a] : a \in {x \in Attempts : timer[x] = "armed"}}
    \cup (IF rpc = "sleeping" THEN {wake} ELSE {})

\* time passes up to the next due time; what is due runs before the clock
\* moves on
PTick ==
    /\ DueTimes # {}
    /\ \A t \in DueTimes : t > now
    /\ now' = CHOOSE t \in DueTimes : \A u \in DueTimes : t <= u
    /\ UNCHANGED <<probe, opts, breaker, calls, opCount, opens, last>>
    /\ UNCHANGED <<svars, rvars, cvars, pvars>>

\* the arguments: lists of up to MaxAttempts timeouts, with or without an
\* onTimeout callback (with one, lists of up to MaxCallbackAttempts)
ProgressiveTimeouts ==
    UNION {[1..n -> {Null, 500, 1500}] : n \in 0..MaxAttempts}

ProgressiveInit ==
    /\ BreakerInit /\ opts.threshold = 1 /\ opts.timeout = 2
    /\ cfg \in [cb : {FALSE}, timeout : {0}, onTimeout : BOOLEAN, retry : {FALSE},
                 maxAttempts : {Null}, delayMs : {Null}, chaos : {FALSE}]
    /\ StackIdle
    /\ rcfg = NoRetryCall /\ RetryIdle /\ ChaosIdle
    /\ timeouts \in ProgressiveTimeouts
    /\ cfg.onTimeout => Len(timeouts) <= MaxCallbackAttempts
    /\ ProgressiveIdle

ProgressiveNext ==
    \/ PAttemptStart
    \/ PNoAttempts
    \/ \E a \in Attempts, ok \in BOOLEAN, isError \in BOOLEAN : POpSettle(a, ok, isError)
    \/ \E a \in Attempts : PTimerFire(a)
    \/ \E a \in Attempts, ok \in BOOLEAN : POnTimeoutSettle(a, ok)
    \/ PTick

SpecProgressive == ProgressiveInit /\ [][ProgressiveNext]_vars

PFailures == {"op-error", "timeout"}

\* every element of the list has had its attempt and each attempt failed
AllAttemptsFailed ==
    /\ Len(timeouts) >= 1
    /\ \A a \in 1..Len(timeouts) : ares[a] \in PFailures

\* C21: the attempts of withProgressiveTimeout run one after another in list
\* order: an attempt starts only after the one before it has failed and
\* after the delay that follows it; the first attempt that succeeds ends the
\* call with its value and no attempt follows; the delay after the i-th
\* attempt (1-based) is 1000 ms x i; when the last attempt has failed the
\* call rejects with that attempt's failure, without a delay after it.
C21_ProgressiveSequence ==
    /\ \A a \in Attempts : a > attempt => (ares[a] = "none" /\ inv[a] = "none")
    /\ \A a \in 1..attempt : a < attempt => ares[a] \in PFailures
    /\ \A a \in 1..attempt :
          ares[a] = "value" => (a = attempt /\ rpc = "done" /\ result = "value")
    /\ slept = [i \in 1..Len(slept) |-> 1000 * i]
    /\ Len(slept) = Cardinality({a \in 1..attempt :
                                   ares[a] \in PFailures /\ a < Len(timeouts)})
    /\ (attempt >= 2 /\ rpc = "running") =>
          /\ startAt[attempt] >= wake
          /\ wake >= startAt[attempt - 1] + slept[attempt - 1]
    /\ (rpc = "done" /\ result \in PFailures) =>
          /\ attempt = Len(timeouts)
          /\ result = ares[attempt]
          /\ thrown.kind = ares[attempt]
          /\ thrown.attempt = attempt
          /\ Len(slept) = Len(timeouts) - 1

\* C21 witness: three attempts, each failed, delays of 1000 and 2000 ms
\* between them, and the call rejected with the timeout of the third
C21_Witness ==
    /\ rpc = "done"
    /\ attempt = 3
    /\ result = "timeout"
    /\ ares[1] = "op-error"
    /\ thrown = [kind |-> "timeout", attempt |-> 3, wrapped |-> FALSE]
    /\ slept = <<1000, 2000>>

\* C22 as claimed: attempt k has the k-th element as its deadline, and when
\* every element has had its attempt and more attempts are needed, the call
\* goes on with further attempts under the final element instead of giving up.
C22_FinalElementReused ==
    /\ \A a \in 1..attempt :
          timeouts[Min(a, Len(timeouts))] # Null =>
              deadline[a] = timeouts[Min(a, Len(timeouts))]
    /\ AllAttemptsFailed => result = "pending"

\* C22, amended: at most one attempt is made per element; attempt k has the
\* k-th element as its deadline, a missing element being replaced by the
\* final one (by 30000 ms when that is missing too); when every element has
\* had its attempt and all failed the call rejects, no further attempt is made.
C22_DeadlinePerElement ==
    /\ attempt <= Len(timeouts)
    /\ \A a \in 1..attempt :
          deadline[a] = IF timeouts[a] # Null THEN timeouts[a]
                        ELSE IF timeouts[Len(timeouts)] # Null
                             THEN timeouts[Len(timeouts)]
                             ELSE 30000
    /\ AllAttemptsFailed => (rpc = "done" /\ result \in PFailures)

\* C22 witness: three elements, the second missing: the second attempt ran
\* under the final element, all three attempts failed and the call rejected
C22_Witness ==
    /\ Len(timeouts) = 3
    /\ attempt = 3
    /\ timeouts[1] = 500 /\ timeouts[2] = Null /\ timeouts[3] = 1500
    /\ deadline[2] = 1500
    /\ AllAttemptsFailed
    /\ rpc = "done"

----------------------------------------------------------------------------
(* withTimeout under the scheduling of the event loop: a due timer callback
   runs, the clock advances, and an onTimeout that was called settles. The
   operation may stay pending forever. *)

SpecTimeoutLive ==
    /\ TimeoutInit
    /\ [][TimeoutNext]_vars
    /\ WF_vars(\E a \in Attempts : TimerFire(a))
    /\ WF_vars(\E a \in Attempts, ok \in BOOLEAN : OnTimeoutSettle(a, ok))
    /\ WF_vars(StackTick)

\* C31: in withTimeout, when the timer fires with the operation still
\* pending, the returned promise is eventually rejected with the timeout
\* error unless the operation settles: it cannot stay pending forever,
\* whatever onTimeout does (including when it rejects).
C31_TimeoutEventuallyRejects ==
    \A a \in Attempts :
        (timer[a] = "fired" /\ pendAtFire[a]) ~>
            (ares[a] = "timeout" \/ inv[a] # "pending")

----------------------------------------------------------------------------
(* withResilience under the scheduling of the event loop: the clock reaches
   the next due timer or the end of the backoff sleep, a due timer callback
   runs, and the retry layer starts its next attempt when its sleep is over.
   The operation may stay pending forever. *)

\* the times at which a withTimeout timer or the retry sleep is due
StackDue ==
    {startAt[a] + cfg.timeout : a \in {x \in Attempts : timer[x] = "armed"}}
    \cup (IF rpc = "sleeping" THEN {wake} ELSE {})

\* time passes up to the next due time; what is due runs before the clock
\* moves on
StackJump ==
    /\ StackDue # {}
    /\ \A t \in StackDue : t > now
    /\ now' = CHOOSE t \in StackDue : \A u \in StackDue : t <= u
    /\ UNCHANGED <<probe, opts, breaker, calls, opCount, opens, last, svars>>
    /\ UNCHANGED nonStack

ResilienceLiveNext ==
    \/ AttemptStart
    \/ \E a \in Attempts, ok \in BOOLEAN : OpSettle(a, ok)
    \/ \E a \in Attempts : TimerFire(a)
    \/ StackJump

SpecResilienceLive ==
    /\ ResilienceInit
    /\ [][ResilienceLiveNext]_vars
    /\ WF_vars(AttemptStart)
    /\ WF_vars(\E a \in Attempts : TimerFire(a))
    /\ WF_vars(StackJump)

\* every attempt of the finished call failed, and each was started less than
\* the breaker's open timeout after the first: whenever the breaker opened
\* during the call, the attempts after that fell inside its open window
AllFailedInsideOpenWindow ==
    /\ rpc = "done"
    /\ result # "value"
    /\ \A a \in 1..attempt : startAt[a] - startAt[1] < opts.timeout

\* C32: with options.timeout set and retry.maxAttempts = n, op is invoked at
\* most n times during a withResilience call, at most threshold times when a
\* breaker with threshold < n is configured and every attempt failed inside
\* the open window, and the call eventually settles even if op never does.
C32_SettlesWithinBudget ==
    /\ []((cfg.timeout # 0 /\ cfg.retry) =>
            /\ opCount <= MaxAttemptsOf(cfg)
            /\ (cfg.cb /\ opts.threshold < MaxAttemptsOf(cfg) /\ AllFailedInsideOpenWindow)
                  => opCount <= opts.threshold)
    /\ ((cfg.timeout # 0 /\ cfg.retry /\ rpc # "idle") ~> (result # "pending"))

----------------------------------------------------------------------------
(* Claims about the half-open probe and the breaker's counters (C33..C35) *)

\* C33: after an Open period has expired, the first operation execute()
\* admits runs as the half-open probe, however many getState() calls were
\* made in between: when that operation fails (nothing else having touched
\* the breaker while it ran), the breaker is Open again right after.
C33_FirstAdmittedIsProbe ==
    [][(calls[1] = "running" /\ calls'[1] = "idle" /\ last'.ev = "failure"
          /\ last.ev = "invoke" /\ 1 \in probe.admitted) =>
          breaker'.state = "open"]_vars

\* C34: in every reachable state of a CircuitBreaker (threshold >= 1), under
\* any interleaving of execute(), getState() and reset(): failureCount >= 0,
\* and a Closed breaker has failureCount < threshold.
C34_ClosedBelowThreshold ==
    /\ breaker.failureCount >= 0
    /\ breaker.state = "closed" => breaker.failureCount < opts.threshold

\* C34 witness: getState() found an expired half-open breaker whose count
\* had reached the threshold and closed it with the count back at 0
C34_Witness ==
    /\ last.ev = "getState"
    /\ last.pre.state = "half-open"
    /\ last.pre.failureCount >= opts.threshold
    /\ breaker.state = "closed"
    /\ breaker.failureCount = 0

\* C35: in every reachable state of a CircuitBreaker, overlapping execute()
\* calls included, an Open breaker has failureCount >= threshold, and while
\* the breaker stays Open neither failureCount nor lastFailureTime changes.
C35_OpenIsFrozen ==
    /\ [](breaker.state = "open" => breaker.failureCount >= opts.threshold)
    /\ [][(breaker.state = "open" /\ breaker'.state = "open") =>
            /\ breaker'.failureCount = breaker.failureCount
            /\ breaker'.lastFailureTime = breaker.lastFailureTime]_vars

----------------------------------------------------------------------------
(* Claims about the timer of withTimeout and the breaker of withResilience
   (C36, C37) *)

\* C36: in withTimeout, the timeout is logged and onTimeout invoked only when
\* the timer fires with the operation still pending: when the operation
\* settled before the deadline, handleTimeout never runs, neither before nor
\* after the returned promise has settled.
C36_OnTimeoutOnlyWhenPending ==
    \A a \in Attempts : hpc[a] # "none" => pendAtFire[a]

\* mutant: the breaker of the previous call is used again
CallBreaker_shared(b) == b

\* withResilience: `new CircuitBreaker(options.circuitBreaker)` is evaluated
\* inside the function, at every call
CallBreaker(b) == FreshBreaker

\* the call has settled and withResilience is called again with the same
\* options: a new closure stack is built; what the previous call left
\* running (operations, timers) holds the previous call's objects only
NextCall ==
    /\ rpc = "done"
    /\ opCount < MaxOps
    /\ breaker' = IF cfg.cb THEN CallBreaker(breaker) ELSE breaker
    /\ last' = Event("new", breaker, "void")
    /\ attempt' = 0
    /\ rpc' = "idle"
    /\ wake' = 0
    /\ inv' = [a \in Attempts |-> "none"]
    /\ timer' = [a \in Attempts |-> "none"]
    /\ startAt' = [a \in Attempts |-> 0]
    /\ hpc' = [a \in Attempts |-> "none"]
    /\ pendAtFire' = [a \in Attempts |-> FALSE]
    /\ ares' = [a \in Attempts |-> "none"]
    /\ result' = "pending"
    /\ UNCHANGED <<probe, now, opts, calls, opCount, opens, cfg>>
    /\ UNCHANGED nonStack

\* successive withResilience calls with a circuitBreaker option
CallsInit == ResilienceInit /\ cfg.cb /\ ~cfg.chaos

CallsNext ==
    \/ AttemptStart
    \/ \E a \in Attempts, ok \in BOOLEAN : OpSettle(a, ok)
    \/ \E a \in Attempts : TimerFire(a)
    \/ StackTick
    \/ NextCall

SpecCalls == CallsInit /\ [][CallsNext]_vars

\* C37: every withResilience call with circuitBreaker configured starts from
\* a fresh breaker (Closed, failureCount 0): whatever the previous call
\* recorded, the first attempt of a call is never rejected with the
\* circuit-open error and invokes the operation.
C37_FreshBreakerPerCall ==
    [][/\ (rpc = "done" /\ rpc' = "idle") => breaker' = FreshBreaker
       /\ (attempt = 0 /\ attempt' = 1) =>
             /\ breaker = FreshBreaker
             /\ ares'[1] # "circuit-open"
             /\ inv'[1] = "pending"
             /\ opCount' = opCount + 1]_vars

\* C37 witness: a breaker was opened by a failure at time 1, and at that
\* same time, inside its open window, the first attempt of the next call has
\* invoked the operation on a fresh breaker
C37_Witness ==
    /\ opens >= 1
    /\ now = 1
    /\ attempt = 1
    /\ inv[1] = "pending"
    /\ ares[1] = "pending"
    /\ breaker = FreshBreaker
    /\ last.ev = "invoke"

----------------------------------------------------------------------------
(* retryWithBackoffLegacy on its own loop (onRetry given or backoffMultiplier
   other than 2), maxAttempts 0 included *)

LegacyArgs ==
    {c \in [fn : {"legacy"}, maxAttempts : {Null} \cup (0..MaxAttempts),
            delay : {Null, 100, 3000}, maxDelayMs : {Null, 150},
            backoffMultiplier : {Null, 1, 2, 3}, onRetry : BOOLEAN] :
        ~Delegates(c)}

LegacyInit ==
    /\ BreakerInit /\ opts.threshold = 1 /\ opts.timeout = 2
    /\ cfg = NoConfig /\ StackIdle /\ ChaosIdle /\ NoProgressiveCall
    /\ rcfg \in LegacyArgs /\ RetryIdle

LegacyNext ==
    \/ RetryCall
    \/ RetryNoAttempts
    \/ RetryOpResolves
    \/ \E e \in Throwables : RetryOpThrows(e)
    \/ RetryWake

SpecLegacy == LegacyInit /\ [][LegacyNext]_vars

\* C38: retryWithBackoffLegacy on its own loop against an always-failing op
\* with maxAttempts = n >= 1: the k-th sleep is
\* min(initialDelayMs x backoffMultiplier^(k-1), maxDelayMs) when
\* initialDelayMs <= maxDelayMs, onRetry is called once per sleep, n - 1
\* times in all and never after the final failure, and a thrown value that
\* is no Error is propagated wrapped in an Error; with n <= 0 op is never
\* invoked and a generic error is thrown.
C38_LegacyLoop ==
    LET n == RMaxAttempts(rcfg)
    IN  /\ (n >= 1 /\ AlwaysFailed) =>
              /\ RDelay(rcfg) <= RMaxDelayMs(rcfg) =>
                    \A k \in 1..Len(rsleeps) :
                        rsleeps[k] = Min(RDelay(rcfg) * Pow(RMultiplier(rcfg), k - 1),
                                         RMaxDelayMs(rcfg))
              /\ ronRetry = IF rcfg.onRetry THEN Len(rsleeps) ELSE 0
              /\ ronRetry <= n - 1
              /\ rpos = "done" =>
                    /\ rcfg.onRetry => ronRetry = n - 1
                    /\ rresult.st = "error"
                    /\ rresult.err.isError
                    /\ rresult.err.id = rthrown.id
                    /\ rresult.err.wrapped = ~rthrown.isError
        /\ n <= 0 =>
              /\ rcalls = 0
              /\ ronRetry = 0
              /\ rsleeps = <<>>
              /\ rpos = "done" => rresult = Rejected(UnknownError)

\* C38 witness: multiplier 3, onRetry given, three failures: sleeps of 100
\* and 150 (capped), onRetry called twice, the value thrown last wrapped
C38_Witness ==
    /\ rcfg.onRetry
    /\ rcfg.backoffMultiplier = 3
    /\ RMaxAttempts(rcfg) = 3
    /\ rpos = "done"
    /\ rsleeps = <<100, 150>>
    /\ ronRetry = 2
    /\ ~rthrown.isError
    /\ rresult.err.wrapped

====
